---------------------------- MODULE Spec2Model ----------------------------
(***************************************************************************)
(* A model of lyst (src/main.py): the SQLite-backed storage layer (class   *)
(* DB), the two modal screens (ConfirmScreen, InputScreen) and the main    *)
(* screen's dispatcher (class MainScreen).                                 *)
(*                                                                         *)
(* Texts are sequences of one-character strings so that str.strip() is     *)
(* computed, not assumed.  Timestamps are natural numbers: _now() returns  *)
(* an ISO string with second resolution, whose lexicographic order is the  *)
(* chronological order, so only the order of the values matters.           *)
(***************************************************************************)
EXTENDS Integers, Sequences, FiniteSets, TLC

(***************************************************************************)
(* Bounds of the model.                                                    *)
(***************************************************************************)
MaxListId == 1
MaxItemId == 3
MaxTime == 1
MaxUiListId == 2
MaxConcItemId == 3
MaxUiItemId == 2
MaxUiTime == 1

\* Python's None where a row, a screen or a result is optional; an optional
\* value that is present is a record too (a row, Str(text), Bool(flag)).
None == [ none |-> TRUE ]
Str(v) == [ str |-> v ]
Bool(b) == [ bool |-> b ]

\* ListView.index when no row is highlighted: None, which every reader
\* treats like a negative index.
NoIndex == 0 - 1

\* No binding handles the key; no callback ran; no exception was raised.
NoBinding == "none"
NoCallback == "none"
NoError == "none"

(***************************************************************************)
(* Texts.                                                                  *)
(***************************************************************************)
Empty == << >>
TxtA == << "a" >>
TxtB == << "b" >>
Blank == << " " >>
PaddedA == << " ", "a", " " >>
PaddedB == << " ", "b" >>

\* What a direct caller of the storage layer may pass as title or text.
StorageTexts == { Empty, TxtA }

\* What the user may type into the Input of an InputScreen.
TypedTexts == { Empty, Blank, TxtA, PaddedA }

IsSpace(c) == c = " "

RECURSIVE lstrip(_)
lstrip(s) ==
    IF s = << >> THEN s
    ELSE IF IsSpace(Head(s)) THEN lstrip(Tail(s)) ELSE s

RECURSIVE rstrip(_)
rstrip(s) ==
    IF s = << >> THEN s
    ELSE IF IsSpace(s[Len(s)]) THEN rstrip(SubSeq(s, 1, Len(s) - 1)) ELSE s

\* str.strip()
strip(s) == rstrip(lstrip(s))

(***************************************************************************)
(* The database: two tables, rows as records.  lists.created_at is written *)
(* once by create_list, with the same value as updated_at, and read by no  *)
(* statement of the program; the rows of the model leave it out.           *)
(***************************************************************************)
EmptyDb == [ lists |-> {}, items |-> {} ]

MaxOf(S) == CHOOSE m \in S : \A x \in S : x <= m

\* INTEGER PRIMARY KEY without AUTOINCREMENT: the new rowid is one more than
\* the largest rowid in the table, 1 in an empty table.
NextRowId(rows) == IF rows = {} THEN 1 ELSE MaxOf({ r.id : r \in rows }) + 1

ListRow(id, title) == [ id |-> id, title |-> title ]

ItemRow(r) ==
    [ id |-> r.id, text |-> r.text, checked |-> r.checked,
      sort_order |-> r.sort_order ]

\* ORDER BY updated_at DESC, id DESC
ListBefore(a, b) ==
    \/ a.updated_at > b.updated_at
    \/ a.updated_at = b.updated_at /\ a.id > b.id

\* ORDER BY sort_order ASC, id ASC
ItemBefore(a, b) ==
    \/ a.sort_order < b.sort_order
    \/ a.sort_order = b.sort_order /\ a.id < b.id

RECURSIVE OrderedLists(_)
OrderedLists(rows) ==
    IF rows = {} THEN << >>
    ELSE LET first == CHOOSE r \in rows :
                          \A o \in rows \ {r} : ListBefore(r, o)
         IN  << first >> \o OrderedLists(rows \ {first})

RECURSIVE OrderedItems(_)
OrderedItems(rows) ==
    IF rows = {} THEN << >>
    ELSE LET first == CHOOSE r \in rows :
                          \A o \in rows \ {r} : ItemBefore(r, o)
         IN  << first >> \o OrderedItems(rows \ {first})

\* DB.lists
lists(d) ==
    LET rows == OrderedLists(d.lists)
    IN  [ i \in 1..Len(rows) |-> ListRow(rows[i].id, rows[i].title) ]

\* A lookup by title that never finds the list.
get_list_by_title_finds_none(d, title) == {}

\* DB.get_list_by_title: fetchone() of an unordered SELECT; any matching row.
get_list_by_title(d, title) ==
    { ListRow(r.id, r.title) : r \in { l \in d.lists : l.title = title } }

\* DB.items
items(d, list_id) ==
    LET rows == OrderedItems({ r \in d.items : r.list_id = list_id })
    IN  [ i \in 1..Len(rows) |-> ItemRow(rows[i]) ]

(***************************************************************************)
(* The SQL statements, each a function from database to database.          *)
(***************************************************************************)
SqlInsertList(d, title, t) ==
    [ d EXCEPT !.lists = @ \cup
        { [ id |-> NextRowId(d.lists), title |-> title, updated_at |-> t ] } ]

SqlRenameList(d, list_id, title, t) ==
    [ d EXCEPT !.lists =
        { IF l.id = list_id
          THEN [ l EXCEPT !.title = title, !.updated_at = t ]
          ELSE l : l \in @ } ]

SqlDeleteItemsOf(d, list_id) ==
    [ d EXCEPT !.items = { r \in @ : r.list_id # list_id } ]

SqlDeleteList(d, list_id) ==
    [ d EXCEPT !.lists = { l \in @ : l.id # list_id } ]

\* SELECT COALESCE(MAX(sort_order), 0) + 1
SqlNextOrder(d, list_id) ==
    LET own == { r \in d.items : r.list_id = list_id }
    IN  IF own = {} THEN 1 ELSE MaxOf({ r.sort_order : r \in own }) + 1

\* The foreign key is declared but SQLite does not enforce it unless
\* PRAGMA foreign_keys is switched on, which DB.__init__ never does.
SqlInsertItem(d, list_id, text, next_order) ==
    [ d EXCEPT !.items = @ \cup
        { [ id |-> NextRowId(d.items), list_id |-> list_id, text |-> text,
            checked |-> 0, sort_order |-> next_order ] } ]

SqlTouchList(d, list_id, t) ==
    [ d EXCEPT !.lists =
        { IF l.id = list_id THEN [ l EXCEPT !.updated_at = t ] ELSE l
          : l \in @ } ]

SqlSetText(d, item_id, text) ==
    [ d EXCEPT !.items =
        { IF r.id = item_id THEN [ r EXCEPT !.text = text ] ELSE r
          : r \in @ } ]

SqlToggle(d, item_id) ==
    [ d EXCEPT !.items =
        { IF r.id = item_id
          THEN [ r EXCEPT !.checked = IF @ = 0 THEN 1 ELSE 0 ]
          ELSE r : r \in @ } ]

SqlDeleteItem(d, item_id) ==
    [ d EXCEPT !.items = { r \in @ : r.id # item_id } ]

SqlSetOrder(d, item_id, idx) ==
    [ d EXCEPT !.items =
        { IF r.id = item_id THEN [ r EXCEPT !.sort_order = idx ] ELSE r
          : r \in @ } ]

(***************************************************************************)
(* The methods of DB, run to completion by one connection.                 *)
(***************************************************************************)
create_list(d, title, t) == SqlInsertList(d, title, t)

rename_list(d, list_id, title, t) == SqlRenameList(d, list_id, title, t)

\* delete_list that forgets the items of the list.
delete_list_keeps_items(d, list_id) == SqlDeleteList(d, list_id)

delete_list(d, list_id) == SqlDeleteList(SqlDeleteItemsOf(d, list_id), list_id)

add_item(d, list_id, text, t) ==
    SqlTouchList(
        SqlInsertItem(d, list_id, text, SqlNextOrder(d, list_id)), list_id, t)

update_item_text(d, item_id, text) == SqlSetText(d, item_id, text)

\* toggle_item that only ever checks the item.
toggle_item_only_checks(d, item_id) ==
    [ d EXCEPT !.items =
        { IF r.id = item_id THEN [ r EXCEPT !.checked = 1 ] ELSE r
          : r \in @ } ]

toggle_item(d, item_id) == SqlToggle(d, item_id)

\* The loop of _rewrite_order over enumerate(items, start=1), first k rows.
RECURSIVE RewriteLoop(_, _, _)
RewriteLoop(d, rows, k) ==
    IF k = 0 THEN d
    ELSE SqlSetOrder(RewriteLoop(d, rows, k - 1), rows[k].id, k)

_rewrite_order(d, list_id, rows, t) ==
    SqlTouchList(RewriteLoop(d, rows, Len(rows)), list_id, t)

\* _normalize_order numbering the rows read in descending order.
_normalize_order_descending(d, list_id, t) ==
    LET rows == items(d, list_id)
    IN  _rewrite_order(d, list_id,
            [ i \in 1..Len(rows) |-> rows[Len(rows) + 1 - i] ], t)

_normalize_order(d, list_id, t) == _rewrite_order(d, list_id, items(d, list_id), t)

\* delete_item without the renumbering pass.
delete_item_no_renumber(d, list_id, item_id, t) ==
    SqlTouchList(SqlDeleteItem(d, item_id), list_id, t)

delete_item(d, list_id, item_id, t) ==
    _normalize_order(SqlDeleteItem(d, item_id), list_id, t)

\* next((i for i, item in enumerate(items) if item.id == item_id), None),
\* as a 1-based index, 0 for None.
IndexOf(rows, item_id) ==
    IF \E i \in 1..Len(rows) : rows[i].id = item_id
    THEN CHOOSE i \in 1..Len(rows) :
             /\ rows[i].id = item_id
             /\ \A j \in 1..(i - 1) : rows[j].id # item_id
    ELSE 0

\* The exchange written as two assignments in sequence: rows[i] is lost.
Swap_sequential(rows, i, j) == [ rows EXCEPT ![i] = rows[j] ]

Swap(rows, i, j) == [ rows EXCEPT ![i] = rows[j], ![j] = rows[i] ]

\* move_item that rewrites the order before it checks the target.
move_item_rewrite_first(d, list_id, item_id, direction, t) ==
    LET rows == items(d, list_id)
        index == IndexOf(rows, item_id)
        target == index + direction
    IN  IF index = 0 THEN d
        ELSE IF target < 1 \/ target > Len(rows)
             THEN _rewrite_order(d, list_id, rows, t)
        ELSE _rewrite_order(d, list_id, Swap(rows, index, target), t)

move_item(d, list_id, item_id, direction, t) ==
    LET rows == items(d, list_id)
        index == IndexOf(rows, item_id)
        target == index + direction
    IN  IF index = 0 THEN d
        ELSE IF target < 1 \/ target > Len(rows) THEN d
        ELSE _rewrite_order(d, list_id, Swap(rows, index, target), t)


(***************************************************************************)
(* State.                                                                  *)
(***************************************************************************)
VARIABLES
    db,              \* the committed content of the storage file
    now,             \* the clock read by _now()
    last,            \* the call or event that produced the current state
    phase,           \* "init" | "running" | "stopped" | "failed" (the
                     \* run ended with an exception): the application
    _focus_panel,    \* MainScreen._focus_panel
    _selected_list,  \* MainScreen._selected_list
    _list_rows,      \* MainScreen._list_rows
    _item_rows,      \* MainScreen._item_rows
    lists_index,     \* index of the ListView #lists
    items_index,     \* index of the ListView #items
    modal,           \* the modal screen on top of the stack, or None
    calls,           \* invocations of the callback of the latest modal
    open_modals,     \* modal screens on App.screen_stack
    conn             \* per process: the connection and the call it runs

vars ==
    << db, now, last, phase, _focus_panel, _selected_list, _list_rows,
       _item_rows, lists_index, items_index, modal, calls, open_modals,
       conn >>

uiVars ==
    << phase, _focus_panel, _selected_list, _list_rows, _item_rows,
       lists_index, items_index, modal, calls, open_modals >>

Procs == { 1, 2 }

\* A connection between calls: no statement pending, no transaction open.
\* txn is the database as the open transaction sees it, before is the
\* committed database when the call began.
IdleConn ==
    [ pc |-> "idle", txn |-> None, before |-> None, next_order |-> 0,
      rows |-> << >>, k |-> 0, list_id |-> 0, item_id |-> 0, text |-> Empty ]

\* MainScreen.__init__ on a fresh storage file, before on_mount.
Init ==
    /\ db = EmptyDb
    /\ now = 0
    /\ last = [ op |-> "init" ]
    /\ phase = "init"
    /\ _focus_panel = "lists"
    /\ _selected_list = None
    /\ _list_rows = << >>
    /\ _item_rows = << >>
    /\ lists_index = NoIndex
    /\ items_index = NoIndex
    /\ modal = None
    /\ calls = 0
    /\ open_modals = 0
    /\ conn = [ p \in Procs |-> IdleConn ]

Call(op, list_id, item_id, text, direction) ==
    [ op |-> op, list_id |-> list_id, item_id |-> item_id, text |-> text,
      direction |-> direction, raised |-> NoError ]

\* One second (or more) passes.
Tick(bound) ==
    /\ now < bound
    /\ now' = now + 1
    /\ last' = [ op |-> "tick" ]

(***************************************************************************)
(* The storage layer driven directly: every method of DB, called by one    *)
(* process with any arguments, each call run to completion.                *)
(***************************************************************************)
ListIds == 1..MaxListId
ItemIds == 1..MaxItemId

StorageTick == Tick(MaxTime) /\ UNCHANGED << db, uiVars, conn >>

CallCreateList ==
    \E title \in StorageTexts :
        /\ NextRowId(db.lists) <= MaxListId
        /\ db' = create_list(db, title, now)
        /\ last' = Call("create_list", NextRowId(db.lists), 0, title, 0)
        /\ UNCHANGED << now, uiVars, conn >>

CallRenameList ==
    \E list_id \in ListIds, title \in StorageTexts :
        /\ db' = rename_list(db, list_id, title, now)
        /\ last' = Call("rename_list", list_id, 0, title, 0)
        /\ UNCHANGED << now, uiVars, conn >>

CallDeleteList ==
    \E list_id \in ListIds :
        /\ db' = delete_list(db, list_id)
        /\ last' = Call("delete_list", list_id, 0, Empty, 0)
        /\ UNCHANGED << now, uiVars, conn >>

CallAddItem ==
    \E list_id \in ListIds, text \in StorageTexts :
        /\ NextRowId(db.items) <= MaxItemId
        /\ db' = add_item(db, list_id, text, now)
        /\ last' = Call("add_item", list_id, NextRowId(db.items), text, 0)
        /\ UNCHANGED << now, uiVars, conn >>

CallUpdateItemText ==
    \E item_id \in ItemIds, text \in StorageTexts :
        /\ db' = update_item_text(db, item_id, text)
        /\ last' = Call("update_item_text", 0, item_id, text, 0)
        /\ UNCHANGED << now, uiVars, conn >>

CallToggleItem ==
    \E item_id \in ItemIds :
        /\ db' = toggle_item(db, item_id)
        /\ last' = Call("toggle_item", 0, item_id, Empty, 0)
        /\ UNCHANGED << now, uiVars, conn >>

\* Callers pass the list they read the item from (main.py:489-497), or an
\* id that is gone.
CallDeleteItem ==
    \E list_id \in ListIds, item_id \in ItemIds :
        /\ \A r \in db.items : r.id = item_id => r.list_id = list_id
        /\ db' = delete_item(db, list_id, item_id, now)
        /\ last' = Call("delete_item", list_id, item_id, Empty, 0)
        /\ UNCHANGED << now, uiVars, conn >>

CallMoveItem ==
    \E list_id \in ListIds, item_id \in ItemIds, direction \in { -1, 1 } :
        /\ db' = move_item(db, list_id, item_id, direction, now)
        /\ last' = Call("move_item", list_id, item_id, Empty, direction)
        /\ UNCHANGED << now, uiVars, conn >>

StorageNext ==
    \/ StorageTick
    \/ CallCreateList
    \/ CallRenameList
    \/ CallDeleteList
    \/ CallAddItem
    \/ CallUpdateItemText
    \/ CallToggleItem
    \/ CallDeleteItem
    \/ CallMoveItem

SpecStorage == Init /\ [][StorageNext]_vars


(***************************************************************************)
(* The application: one process, one event loop.  Keys are routed to the   *)
(* screen on top of the stack; a ModalScreen on top hides the bindings of  *)
(* MainScreen beneath it.                                                  *)
(***************************************************************************)
Keys ==
    { "tab", "shift+tab", "n", "r", "d", "a", "e", "[", "]", "q",
      "y", "escape", "enter" }

\* MainScreen.BINDINGS, and the keys of the focused ListView.
MainBindings(k) ==
    CASE k = "tab" -> "switch_focus"
      [] k = "shift+tab" -> "switch_focus"
      [] k = "n" -> "new_list"
      [] k = "r" -> "rename_list"
      [] k = "d" -> "delete"
      [] k = "a" -> "add_item"
      [] k = "e" -> "edit_item"
      [] k = "[" -> "move_up"
      [] k = "]" -> "move_down"
      [] k = "q" -> "app.quit"
      [] k = "enter" -> "select_cursor"
      [] OTHER -> NoBinding

\* ConfirmScreen.BINDINGS
ConfirmBindings(k) ==
    CASE k = "y" -> "yes"
      [] k = "n" -> "no"
      [] k = "escape" -> "no"
      [] OTHER -> NoBinding

\* InputScreen.BINDINGS, and Enter in its focused Input.
InputBindings(k) ==
    CASE k = "escape" -> "cancel"
      [] k = "enter" -> "submit"
      [] OTHER -> NoBinding

\* The modal screens pushed as if they did not hide MainScreen's bindings.
ActiveScreen_ignores_modal == "main"

\* The screen whose bindings are live.

ActiveScreen == IF modal # None THEN modal.screen ELSE "main"

\* Bindings looked up as on a plain Screen stack: a key the screen on top
\* does not bind falls through to MainScreen.
Binding_falls_through(k) ==
    IF ActiveScreen = "confirm" /\ ConfirmBindings(k) # NoBinding
    THEN ConfirmBindings(k)
    ELSE IF ActiveScreen = "input" /\ InputBindings(k) # NoBinding
    THEN InputBindings(k)
    ELSE MainBindings(k)

Binding(k) ==
    CASE ActiveScreen = "main" -> MainBindings(k)
      [] ActiveScreen = "confirm" -> ConfirmBindings(k)
      [] ActiveScreen = "input" -> InputBindings(k)

\* A key event and what it led to: the binding that ran and, when a modal
\* was dismissed, its callback (fired), the result it was given, whether
\* the text submitted was blank, and how many items storage held before.
Ev(bound, fired, result, blank) ==
    [ op |-> "key", bound |-> bound, fired |-> fired, result |-> result,
      blank |-> blank, had |-> Cardinality(db.items) ]

Plain(k, bound) ==
    [ op |-> "key", bound |-> bound, fired |-> NoCallback, result |-> None,
      blank |-> FALSE, had |-> 0 ]

\* The text holds nothing but whitespace.
IsBlank(typed) == \A i \in 1..Len(typed) : IsSpace(typed[i])

\* ListView.clear() drops the index.  A highlight the view gives a row by
\* itself afterwards is one more Highlight event.
ClearedIndex == NoIndex

\* Rows shown by a ListView: the rows, or one placeholder row.
ViewLen(rows) == IF rows = << >> THEN 1 ELSE Len(rows)

\* A row lookup that falls back to the first row when none is highlighted.
RowAt_defaults_first(rows, index) ==
    IF rows = << >> THEN None
    ELSE IF index < 0 \/ index >= Len(rows) THEN rows[1]
    ELSE rows[index + 1]

\* MainScreen._selected_list_row and MainScreen._selected_item_row
RowAt(rows, index) ==
    IF rows = << >> THEN None
    ELSE IF index = NoIndex THEN None
    ELSE IF index < 0 \/ index >= Len(rows) THEN None
    ELSE rows[index + 1]

_selected_list_row == RowAt(_list_rows, lists_index)

_selected_item_row == RowAt(_item_rows, items_index)

\* MainScreen.refresh_lists, reading database d
refresh_lists(d) ==
    /\ _list_rows' = lists(d)
    /\ lists_index' = ClearedIndex

\* MainScreen.refresh_items, with the selection sel, reading database d
refresh_items(sel, d) ==
    /\ _item_rows' = IF sel = None THEN _item_rows ELSE items(d, sel.id)
    /\ items_index' = ClearedIndex

\* MainScreen._select_list
_select_list(row, d) ==
    /\ _selected_list' = row
    /\ refresh_items(row, d)
    /\ refresh_lists(d)

PendingModal(screen, action, row, list_id, item, value) ==
    [ screen |-> screen, action |-> action, row |-> row, list_id |-> list_id,
      item |-> item, value |-> value ]

\* App.push_screen(screen, callback)
push_screen(m) ==
    /\ modal' = m
    /\ calls' = 0
    /\ open_modals' = open_modals + 1

Running == phase = "running"

\* The list name given on the command line (main.py:657), if any.
StartArgs == { None, Str(Blank), Str(TxtB), Str(PaddedB) }

\* LystApp.on_mount and MainScreen.__init__/on_mount: the application starts
\* (or starts again) on the storage file as it is.
Start ==
    \E start_list \in StartArgs :
        /\ phase \in { "init", "stopped" }
        /\ phase' = "running"
        /\ modal' = None
        /\ calls' = 0
        /\ open_modals' = 0
        /\ last' = [ op |-> "start", start_list |-> start_list ]
        /\ LET name == IF start_list = None THEN Empty
                       ELSE strip(start_list.str)
           IN  IF start_list # None /\ start_list # Str(Empty) /\ name # Empty
               THEN /\ \/ \E row \in get_list_by_title(db, name) :
                              /\ db' = db
                              /\ _select_list(row, db')
                       \/ /\ get_list_by_title(db, name) = {}
                          /\ NextRowId(db.lists) <= MaxUiListId
                          /\ db' = create_list(db, name, now)
                          /\ _select_list(
                                 ListRow(NextRowId(db.lists), name), db')
                    /\ _focus_panel' = "items"
               ELSE /\ db' = db
                    /\ refresh_lists(db)
                    /\ _selected_list' = None
                    /\ _item_rows' = << >>
                    /\ items_index' = NoIndex
                    /\ _focus_panel' = "lists"
        /\ UNCHANGED << now, conn >>

\* The process is gone: its screens and their fields with it.  No callback
\* runs; the storage file stays as the last commit left it.
Stopped ==
    /\ phase' = "stopped"
    /\ _focus_panel' = "lists"
    /\ _selected_list' = None
    /\ _list_rows' = << >>
    /\ _item_rows' = << >>
    /\ lists_index' = NoIndex
    /\ items_index' = NoIndex
    /\ modal' = None
    /\ open_modals' = 0
    /\ UNCHANGED << db, now, calls, conn >>

\* The process ends (interrupt, kill, Ctrl+C), whatever screen is on top.
Teardown ==
    /\ Running
    /\ last' = [ op |-> "teardown" ]
    /\ Stopped

UiTick == Tick(MaxUiTime) /\ Running /\ UNCHANGED << db, uiVars, conn >>

\* A key no live binding handles.
KeyInert ==
    \E k \in Keys :
        /\ Running
        /\ Binding(k) = NoBinding
        /\ last' = Plain(k, NoBinding)
        /\ UNCHANGED << db, now, uiVars, conn >>

\* q: app.quit
KeyQuit ==
    \E k \in Keys :
        /\ Running
        /\ Binding(k) = "app.quit"
        /\ last' = Plain(k, "app.quit")
        /\ Stopped

\* MainScreen.action_switch_focus
KeySwitchFocus ==
    \E k \in Keys :
        /\ Running
        /\ Binding(k) = "switch_focus"
        /\ _focus_panel' = IF _focus_panel = "lists" THEN "items" ELSE "lists"
        /\ last' = Plain(k, "switch_focus")
        /\ UNCHANGED << db, now, phase, _selected_list, _list_rows,
                        _item_rows, lists_index, items_index, modal, calls,
                        open_modals, conn >>

\* ListView.Highlighted: the highlight of a view moves to row i (cursor
\* keys, the mouse, or the view itself after it was refilled).  For #lists
\* MainScreen.on_list_view_highlighted runs; it does not look at the focus.
Highlight ==
    \E view \in { "lists", "items" } :
        /\ Running
        /\ ActiveScreen = "main"
        /\ last' = [ op |-> "highlight", view |-> view ]
        /\ IF view = "lists"
           THEN \E i \in 0..(ViewLen(_list_rows) - 1) :
                    /\ lists_index' = i
                    /\ IF _list_rows # << >> /\ i < Len(_list_rows)
                       THEN /\ _selected_list' = _list_rows[i + 1]
                            /\ refresh_items(_list_rows[i + 1], db)
                       ELSE UNCHANGED << _selected_list, _item_rows,
                                         items_index >>
           ELSE \E i \in 0..(ViewLen(_item_rows) - 1) :
                    /\ items_index' = i
                    /\ UNCHANGED << _selected_list, _item_rows, lists_index >>
        /\ UNCHANGED << db, now, phase, _focus_panel, _list_rows, modal,
                        calls, open_modals, conn >>

\* Enter on the focused ListView: MainScreen.on_list_view_selected
KeyActivate ==
    \E k \in Keys :
        /\ Running
        /\ Binding(k) = "select_cursor"
        /\ last' = Plain(k, "select_cursor")
        /\ IF _focus_panel = "lists"
           THEN IF _selected_list_row # None
                THEN /\ _select_list(_selected_list_row, db)
                     /\ db' = db
                ELSE UNCHANGED << db, _selected_list, _list_rows, _item_rows,
                                  lists_index, items_index >>
           ELSE IF _selected_item_row # None /\ _selected_list # None
                THEN /\ db' = toggle_item(db, _selected_item_row.id)
                     /\ refresh_items(_selected_list, db')
                     /\ UNCHANGED << _selected_list, _list_rows, lists_index >>
                ELSE UNCHANGED << db, _selected_list, _list_rows, _item_rows,
                                  lists_index, items_index >>
        /\ UNCHANGED << now, phase, _focus_panel, modal, calls, open_modals,
                        conn >>

NoModalOpened ==
    UNCHANGED << db, now, phase, _focus_panel, _selected_list, _list_rows,
                 _item_rows, lists_index, items_index, modal, calls,
                 open_modals, conn >>

Opened(m) ==
    /\ push_screen(m)
    /\ UNCHANGED << db, now, phase, _focus_panel, _selected_list, _list_rows,
                    _item_rows, lists_index, items_index, conn >>

\* MainScreen.action_new_list
KeyNewList ==
    \E k \in Keys :
        /\ Running
        /\ Binding(k) = "new_list"
        /\ last' = Plain(k, "new_list")
        /\ Opened(PendingModal("input", "new_list", None, 0, None, Empty))

\* MainScreen.action_rename_list
KeyRenameList ==
    \E k \in Keys :
        /\ Running
        /\ Binding(k) = "rename_list"
        /\ last' = Plain(k, "rename_list")
        /\ IF _focus_panel # "lists" THEN NoModalOpened
           ELSE IF _selected_list_row = None THEN NoModalOpened
           ELSE Opened(PendingModal("input", "rename_list",
                    _selected_list_row, 0, None, _selected_list_row.title))

\* MainScreen._delete_list
_delete_list ==
    IF _selected_list_row = None THEN NoModalOpened
    ELSE Opened(PendingModal("confirm", "delete_list", _selected_list_row,
                             0, None, Empty))

\* MainScreen._delete_item
_delete_item ==
    IF _selected_list = None THEN NoModalOpened
    ELSE IF _selected_item_row = None THEN NoModalOpened
    ELSE Opened(PendingModal("confirm", "delete_item", None,
                             _selected_list.id, _selected_item_row, Empty))

\* MainScreen.action_delete
KeyDelete ==
    \E k \in Keys :
        /\ Running
        /\ Binding(k) = "delete"
        /\ last' = Plain(k, "delete")
        /\ IF _focus_panel = "lists" THEN _delete_list ELSE _delete_item

\* MainScreen.action_add_item
KeyAddItem ==
    \E k \in Keys :
        /\ Running
        /\ Binding(k) = "add_item"
        /\ last' = Plain(k, "add_item")
        /\ IF _selected_list = None THEN NoModalOpened
           ELSE Opened(PendingModal("input", "add_item", None,
                                    _selected_list.id, None, Empty))

\* MainScreen.action_edit_item
KeyEditItem ==
    \E k \in Keys :
        /\ Running
        /\ Binding(k) = "edit_item"
        /\ last' = Plain(k, "edit_item")
        /\ IF _focus_panel # "items" THEN NoModalOpened
           ELSE IF _selected_item_row = None THEN NoModalOpened
           ELSE Opened(PendingModal("input", "edit_item", None, 0,
                    _selected_item_row, _selected_item_row.text))

\* MainScreen.action_move_up and MainScreen.action_move_down
MoveAction(direction) ==
    IF _focus_panel # "items" \/ _selected_list = None THEN NoModalOpened
    ELSE IF _selected_item_row = None THEN NoModalOpened
    ELSE /\ db' = move_item(db, _selected_list.id, _selected_item_row.id,
                            direction, now)
         /\ refresh_items(_selected_list, db')
         /\ UNCHANGED << now, phase, _focus_panel, _selected_list,
                         _list_rows, lists_index, modal, calls, open_modals,
                         conn >>

KeyMoveUp ==
    \E k \in Keys :
        /\ Running
        /\ Binding(k) = "move_up"
        /\ last' = Plain(k, "move_up")
        /\ MoveAction(-1)

KeyMoveDown ==
    \E k \in Keys :
        /\ Running
        /\ Binding(k) = "move_down"
        /\ last' = Plain(k, "move_down")
        /\ MoveAction(1)

\* Python's "if not value" / "if not confirmed"
Falsy(result) ==
    result = None \/ result = Str(Empty) \/ result = Bool(FALSE)

Returned ==
    UNCHANGED << db, _selected_list, _list_rows, _item_rows, lists_index,
                 items_index >>

\* _on_result of MainScreen.action_new_list
new_list_on_result(value) ==
    IF Falsy(value) THEN Returned
    ELSE /\ NextRowId(db.lists) <= MaxUiListId
         /\ db' = create_list(db, value.str, now)
         /\ _select_list(ListRow(NextRowId(db.lists), value.str), db')

\* The callback of action_rename_list without the update of the selection.
rename_list_on_result_keeps_title(row, value) ==
    IF Falsy(value) THEN Returned
    ELSE /\ db' = rename_list(db, row.id, value.str, now)
         /\ refresh_lists(db')
         /\ UNCHANGED << _selected_list, _item_rows, items_index >>

\* _on_result of MainScreen.action_rename_list, row captured at open time
rename_list_on_result(row, value) ==
    IF Falsy(value) THEN Returned
    ELSE /\ db' = rename_list(db, row.id, value.str, now)
         /\ _selected_list' =
                IF _selected_list # None /\ _selected_list.id = row.id
                THEN ListRow(row.id, value.str)
                ELSE _selected_list
         /\ refresh_lists(db')
         /\ UNCHANGED << _item_rows, items_index >>

\* The callback of _delete_list without the test for the selected list.
delete_list_on_result_keeps_selection(row, confirmed) ==
    IF Falsy(confirmed) THEN Returned
    ELSE /\ db' = delete_list(db, row.id)
         /\ UNCHANGED << _selected_list, _item_rows, items_index >>
         /\ refresh_lists(db')

\* _on_result of MainScreen._delete_list, row captured at open time
delete_list_on_result(row, confirmed) ==
    IF Falsy(confirmed) THEN Returned
    ELSE /\ db' = delete_list(db, row.id)
         /\ IF _selected_list # None /\ _selected_list.id = row.id
            THEN /\ _selected_list' = None
                 /\ _item_rows' = << >>
                 /\ items_index' = ClearedIndex
            ELSE UNCHANGED << _selected_list, _item_rows, items_index >>
         /\ refresh_lists(db')

\* _on_result of MainScreen.action_add_item, list_id captured at open time
add_item_on_result(list_id, value) ==
    IF Falsy(value) THEN Returned
    ELSE /\ NextRowId(db.items) <= MaxUiItemId
         /\ db' = add_item(db, list_id, value.str, now)
         /\ refresh_items(_selected_list, db')
         /\ UNCHANGED << _selected_list, _list_rows, lists_index >>

\* _on_result of MainScreen.action_edit_item, item captured at open time
edit_item_on_result(item, value) ==
    IF Falsy(value) THEN Returned
    ELSE /\ db' = update_item_text(db, item.id, value.str)
         /\ refresh_items(_selected_list, db')
         /\ UNCHANGED << _selected_list, _list_rows, lists_index >>

\* _on_result of MainScreen._delete_item, list_id and item captured
delete_item_on_result(list_id, item, confirmed) ==
    IF Falsy(confirmed) THEN Returned
    ELSE /\ db' = delete_item(db, list_id, item.id, now)
         /\ refresh_items(_selected_list, db')
         /\ UNCHANGED << _selected_list, _list_rows, lists_index >>

\* The callback given to push_screen with modal m, called with result.
Callback(m, result) ==
    CASE m.action = "new_list" -> new_list_on_result(result)
      [] m.action = "rename_list" -> rename_list_on_result(m.row, result)
      [] m.action = "delete_list" -> delete_list_on_result(m.row, result)
      [] m.action = "add_item" -> add_item_on_result(m.list_id, result)
      [] m.action = "edit_item" -> edit_item_on_result(m.item, result)
      [] m.action = "delete_item" ->
             delete_item_on_result(m.list_id, m.item, result)

\* A dismiss that calls the callback but leaves the screen on the stack.
dismiss_keeps_screen(result) ==
    /\ modal' = modal
    /\ calls' = calls + 1
    /\ open_modals' = open_modals
    /\ Callback(modal, result)
    /\ UNCHANGED << now, phase, _focus_panel, conn >>

\* ModalScreen.dismiss(result): the screen is popped and the callback given
\* to push_screen is called with the result.
dismiss(result) ==
    /\ modal' = None
    /\ calls' = calls + 1
    /\ open_modals' = open_modals - 1
    /\ Callback(modal, result)
    /\ UNCHANGED << now, phase, _focus_panel, conn >>

\* ConfirmScreen.action_yes
KeyYes ==
    \E k \in Keys :
        /\ Running
        /\ Binding(k) = "yes"
        /\ last' = Ev("yes", modal.action, Bool(TRUE), FALSE)
        /\ dismiss(Bool(TRUE))

\* ConfirmScreen.action_no
KeyNo ==
    \E k \in Keys :
        /\ Running
        /\ Binding(k) = "no"
        /\ last' = Ev("no", modal.action, Bool(FALSE), FALSE)
        /\ dismiss(Bool(FALSE))

\* on_input_submitted without the strip: blank text is a result.
Submitted_unstripped(typed) == IF typed # Empty THEN Str(typed) ELSE None

\* The result InputScreen.on_input_submitted dismisses with
Submitted(typed) ==
    LET value == strip(typed)
    IN  IF value # Empty THEN Str(value) ELSE None

\* InputScreen.on_input_submitted, the Input holding the text typed
KeySubmit ==
    \E k \in Keys, typed \in TypedTexts :
        /\ Running
        /\ Binding(k) = "submit"
        /\ last' = Ev("submit", modal.action, Submitted(typed),
                      IsBlank(typed))
        /\ dismiss(Submitted(typed))

\* InputScreen.action_cancel
KeyCancel ==
    \E k \in Keys :
        /\ Running
        /\ Binding(k) = "cancel"
        /\ last' = Ev("cancel", modal.action, None, FALSE)
        /\ dismiss(None)

UiNext ==
    \/ Start
    \/ Teardown
    \/ UiTick
    \/ KeyInert
    \/ KeyQuit
    \/ KeySwitchFocus
    \/ Highlight
    \/ KeyActivate
    \/ KeyNewList
    \/ KeyRenameList
    \/ KeyDelete
    \/ KeyAddItem
    \/ KeyEditItem
    \/ KeyMoveUp
    \/ KeyMoveDown
    \/ KeyYes
    \/ KeyNo
    \/ KeySubmit
    \/ KeyCancel

SpecUi == Init /\ [][UiNext]_vars

(***************************************************************************)
(* The application on a storage that may fail.  A statement of sqlite3     *)
(* raises sqlite3.Error; no handler and no callback of MainScreen has a    *)
(* try block, so the exception leaves the handler and the framework ends   *)
(* the application with it.  The transaction left open is rolled back when *)
(* the process exits; delete_item may have committed its DELETE before the *)
(* failing statement.                                                      *)
(***************************************************************************)
\* The DB methods the next key may call in the current state: through the
\* callback of the pending modal, or directly from a handler of MainScreen.
DbCallsAhead ==
    IF modal # None
    THEN { CASE modal.action = "new_list" -> "create_list"
             [] modal.action = "rename_list" -> "rename_list"
             [] modal.action = "delete_list" -> "delete_list"
             [] modal.action = "add_item" -> "add_item"
             [] modal.action = "edit_item" -> "update_item_text"
             [] modal.action = "delete_item" -> "delete_item" }
    ELSE IF /\ _focus_panel = "items"
            /\ _selected_list # None
            /\ _selected_item_row # None
         THEN { "toggle_item", "move_item" }
         ELSE {}

\* What the file holds after the call failed and the process exited.
AfterFailure(call) ==
    IF call = "delete_item"
    THEN { db, SqlDeleteItem(db, modal.item.id) }
    ELSE { db }

\* A key runs a handler or callback whose DB call raises sqlite3.Error;
\* the run ends with the exception.
StorageFails ==
    \E call \in DbCallsAhead :
        /\ Running
        /\ last' = [ op |-> "failure", call |-> call,
                     raised |-> "sqlite3.Error" ]
        /\ db' \in AfterFailure(call)
        /\ phase' = "failed"
        /\ _focus_panel' = "lists"
        /\ _selected_list' = None
        /\ _list_rows' = << >>
        /\ _item_rows' = << >>
        /\ lists_index' = NoIndex
        /\ items_index' = NoIndex
        /\ modal' = None
        /\ open_modals' = 0
        /\ UNCHANGED << now, calls, conn >>

FailNext ==
    \/ UiNext
    \/ StorageFails

SpecFail == Init /\ [][FailNext]_vars

(***************************************************************************)
(* The storage layer statement by statement.  sqlite3.connect(path) leaves *)
(* the module's default transaction control in place: a SELECT runs        *)
(* outside any transaction, the first INSERT, UPDATE or DELETE after a     *)
(* commit opens a deferred transaction and takes the file's write lock,    *)
(* and commit() makes the transaction durable and releases the lock.  What *)
(* a transaction wrote and did not commit is rolled back when its process  *)
(* stops.                                                                  *)
(***************************************************************************)
Idle(p) == conn[p].pc = "idle"

\* Another connection holds the write lock.
LockedByOther(p) == \E q \in Procs \ {p} : conn[q].txn # None

\* What a statement of p reads: its open transaction, else the file.
Sees(p) == IF conn[p].txn # None THEN conn[p].txn ELSE db

\* conn.commit()
Commit(p, pc) ==
    /\ db' = Sees(p)
    /\ conn' = [ conn EXCEPT ![p].txn = None, ![p].pc = pc ]

StmtFrame == UNCHANGED << now, uiVars >>

\* DB.delete_item, line 162: DELETE FROM items WHERE id = ?
DelDelete(p) ==
    \E list_id \in ListIds, item_id \in ItemIds :
        /\ Idle(p)
        /\ ~LockedByOther(p)
        /\ \E r \in db.items : r.id = item_id /\ r.list_id = list_id
        /\ conn' = [ conn EXCEPT ![p] =
               [ IdleConn EXCEPT !.pc = "del_commit",
                                 !.txn = SqlDeleteItem(db, item_id),
                                 !.before = db,
                                 !.list_id = list_id,
                                 !.item_id = item_id ] ]
        /\ last' = [ op |-> "stmt" ]
        /\ UNCHANGED db
        /\ StmtFrame

\* DB.delete_item, line 163: commit
DelCommit(p) ==
    /\ conn[p].pc = "del_commit"
    /\ Commit(p, "norm_read")
    /\ last' = [ op |-> "stmt" ]
    /\ StmtFrame

\* DB._normalize_order, line 178: items = self.items(list_id)
NormRead(p) ==
    /\ conn[p].pc = "norm_read"
    /\ conn' = [ conn EXCEPT ![p].rows = items(Sees(p), conn[p].list_id),
                             ![p].k = 0,
                             ![p].pc = "rewrite" ]
    /\ last' = [ op |-> "stmt" ]
    /\ UNCHANGED db
    /\ StmtFrame

\* DB._rewrite_order, lines 183-187: one UPDATE of the loop
RewriteUpdate(p) ==
    /\ conn[p].pc = "rewrite"
    /\ conn[p].k < Len(conn[p].rows)
    /\ ~LockedByOther(p)
    /\ conn' = [ conn EXCEPT
           ![p].txn = SqlSetOrder(Sees(p), conn[p].rows[conn[p].k + 1].id,
                                  conn[p].k + 1),
           ![p].k = conn[p].k + 1 ]
    /\ last' = [ op |-> "stmt" ]
    /\ UNCHANGED db
    /\ StmtFrame

\* DB._rewrite_order, lines 188-191: UPDATE lists SET updated_at
RewriteTouch(p) ==
    /\ conn[p].pc = "rewrite"
    /\ conn[p].k = Len(conn[p].rows)
    /\ ~LockedByOther(p)
    /\ conn' = [ conn EXCEPT
           ![p].txn = SqlTouchList(Sees(p), conn[p].list_id, now),
           ![p].pc = "rewrite_commit" ]
    /\ last' = [ op |-> "stmt" ]
    /\ UNCHANGED db
    /\ StmtFrame

\* DB._rewrite_order, line 192: commit; delete_item returns
RewriteCommit(p) ==
    /\ conn[p].pc = "rewrite_commit"
    /\ Commit(p, "idle")
    /\ last' = Call("delete_item", conn[p].list_id, conn[p].item_id, Empty, 0)
    /\ StmtFrame

\* The process of p stops in the middle of a call: its open transaction
\* is rolled back, the file keeps what was committed.
Crash(p) ==
    /\ conn[p].pc \notin { "idle", "crashed" }
    /\ conn' = [ conn EXCEPT ![p].txn = None, ![p].pc = "crashed" ]
    /\ last' = [ op |-> "crash" ]
    /\ UNCHANGED db
    /\ StmtFrame

\* A new process opens the file.
Reopen(p) ==
    /\ conn[p].pc = "crashed"
    /\ conn' = [ conn EXCEPT ![p] = IdleConn ]
    /\ last' = [ op |-> "reopen" ]
    /\ UNCHANGED db
    /\ StmtFrame

\* One process: lists and items are created by whole calls, delete_item
\* runs statement by statement and may be cut short.
CrashNext ==
    \/ Idle(1) /\ StorageTick
    \/ Idle(1) /\ CallCreateList
    \/ Idle(1) /\ CallAddItem
    \/ DelDelete(1)
    \/ DelCommit(1)
    \/ NormRead(1)
    \/ RewriteUpdate(1)
    \/ RewriteTouch(1)
    \/ RewriteCommit(1)
    \/ Crash(1)
    \/ Reopen(1)

SpecCrash == Init /\ [][CrashNext]_vars

\* DB.add_item, lines 131-135: SELECT COALESCE(MAX(sort_order), 0) + 1
AddSelect(p) ==
    \E list_id \in ListIds, text \in { TxtA } :
        /\ Idle(p)
        /\ NextRowId(db.items) <= MaxConcItemId
        /\ \E l \in db.lists : l.id = list_id
        /\ conn' = [ conn EXCEPT ![p] =
               [ IdleConn EXCEPT !.pc = "add_insert",
                                 !.next_order = SqlNextOrder(Sees(p), list_id),
                                 !.list_id = list_id,
                                 !.text = text ] ]
        /\ last' = [ op |-> "stmt" ]
        /\ UNCHANGED db
        /\ StmtFrame

\* DB.add_item, lines 136-139: INSERT INTO items; waits for the write lock
AddInsert(p) ==
    /\ conn[p].pc = "add_insert"
    /\ ~LockedByOther(p)
    /\ NextRowId(db.items) <= MaxConcItemId
    /\ conn' = [ conn EXCEPT
           ![p].txn = SqlInsertItem(Sees(p), conn[p].list_id, conn[p].text,
                                    conn[p].next_order),
           ![p].item_id = NextRowId(Sees(p).items),
           ![p].pc = "add_touch" ]
    /\ last' = [ op |-> "stmt" ]
    /\ UNCHANGED db
    /\ StmtFrame

\* DB.add_item, lines 140-143: UPDATE lists SET updated_at
AddTouch(p) ==
    /\ conn[p].pc = "add_touch"
    /\ conn' = [ conn EXCEPT
           ![p].txn = SqlTouchList(Sees(p), conn[p].list_id, now),
           ![p].pc = "add_commit" ]
    /\ last' = [ op |-> "stmt" ]
    /\ UNCHANGED db
    /\ StmtFrame

\* DB.add_item, line 144: commit; add_item returns
AddCommit(p) ==
    /\ conn[p].pc = "add_commit"
    /\ Commit(p, "idle")
    /\ last' = Call("add_item", conn[p].list_id, conn[p].item_id,
                    conn[p].text, 0)
    /\ StmtFrame

\* DB.create_list by p: one INSERT and its commit
ConcCreateList(p) ==
    /\ Idle(p)
    /\ ~LockedByOther(p)
    /\ NextRowId(db.lists) <= MaxListId
    /\ db' = create_list(db, TxtA, now)
    /\ last' = Call("create_list", NextRowId(db.lists), 0, TxtA, 0)
    /\ UNCHANGED conn
    /\ StmtFrame

\* Two processes on one storage file.
ConcNext ==
    \/ StorageTick
    \/ \E p \in Procs :
           \/ ConcCreateList(p)
           \/ AddSelect(p)
           \/ AddInsert(p)
           \/ AddTouch(p)
           \/ AddCommit(p)

SpecConc == Init /\ [][ConcNext]_vars

(***************************************************************************)
(* Properties of the storage layer.                                        *)
(***************************************************************************)
Positions(rows) == [ i \in 1..Len(rows) |-> rows[i].sort_order ]

Dense(rows) == \A i \in 1..Len(rows) : rows[i].sort_order = i

\* C1: after any sequence of add_item, delete_item and move_item calls on a
\* list, the sort positions items() returns for it are exactly 1..N, in
\* increasing order, without gap or duplicate.
C1_DensePositions == \A l \in ListIds : Dense(items(db, l))

\* A delete that left two rows behind, the younger one first: items were
\* added, moved and deleted.
C1_Witness ==
    /\ last.op = "delete_item"
    /\ LET rows == items(db, last.list_id)
       IN  /\ Len(rows) = 2
           /\ rows[1].id > rows[2].id
           /\ \A r \in db.items : r.id # last.item_id

\* The item is the first row and moves up, or the last row and moves down.
AtBoundary(d, list_id, item_id, direction) ==
    LET rows == items(d, list_id)
        index == IndexOf(rows, item_id)
    IN  /\ index # 0
        /\ \/ direction = -1 /\ index = 1
           \/ direction = 1 /\ index = Len(rows)

\* C3: move_item up on the first item, or down on the last item, changes
\* nothing (rows, positions, timestamps) and raises nothing.
C3_BoundaryMoveNoop ==
    [][ ( /\ last'.op = "move_item"
          /\ AtBoundary(db, last'.list_id, last'.item_id, last'.direction) )
        => /\ db' = db
           /\ last'.raised = NoError ]_vars

\* A boundary move was made on a list of two or more items, later than the
\* list's last update.
C3_Witness ==
    /\ last.op = "move_item"
    /\ AtBoundary(db, last.list_id, last.item_id, last.direction)
    /\ Len(items(db, last.list_id)) >= 2
    /\ \E l \in db.lists : l.id = last.list_id /\ l.updated_at < now

\* C7: create_list("") and add_item(id, "") raise ValidationError and
\* insert nothing.
C7_EmptyRejected ==
    /\ ( last.op = "create_list" /\ last.text = Empty )
       => /\ last.raised = "ValidationError"
          /\ \A l \in db.lists : l.title # Empty
    /\ ( last.op = "add_item" /\ last.text = Empty )
       => /\ last.raised = "ValidationError"
          /\ \A r \in db.items : r.text # Empty

\* The list a call mutates: the list named, or the list owning the item.
ListsOf(d, item_id) == { r.list_id : r \in { x \in d.items : x.id = item_id } }

Affected(d, c) ==
    IF c.op \in { "rename_list", "add_item", "delete_item" }
    THEN { c.list_id }
    ELSE IF c.op \in { "update_item_text", "toggle_item" }
    THEN ListsOf(d, c.item_id)
    ELSE IF /\ c.op = "move_item"
            /\ IndexOf(items(d, c.list_id), c.item_id) # 0
            /\ ~AtBoundary(d, c.list_id, c.item_id, c.direction)
    THEN { c.list_id }
    ELSE {}

\* C10: rename_list, add_item, update_item_text, toggle_item, an in-bounds
\* move_item and delete_item leave the list they affect with updated_at
\* equal to the time of the call.
C10_TouchOnMutation ==
    [][ \A l \in db'.lists :
            l.id \in Affected(db, last') => l.updated_at = now ]_vars


(***************************************************************************)
(* Properties of the application.                                          *)
(***************************************************************************)
NoOrphans(d) == \A r \in d.items : \E l \in d.lists : l.id = r.list_id

ConfirmedDelete(ev) ==
    /\ ev.op = "key"
    /\ ev.fired = "delete_list"
    /\ ev.result = Bool(TRUE)

\* C2: once the deletion of a list is confirmed, storage holds no item of
\* that list, the list is gone and items() of its id is empty; and whatever
\* the user does, every stored item belongs to a stored list.
C2_CascadeNoOrphans ==
    [][ /\ NoOrphans(db')
        /\ ConfirmedDelete(last') =>
               /\ items(db', modal.row.id) = << >>
               /\ \A r \in db'.items : r.list_id # modal.row.id
               /\ \A l \in db'.lists : l.id # modal.row.id ]_vars

\* A list holding an item was deleted while another list keeps its item.
C2_Witness ==
    /\ ConfirmedDelete(last)
    /\ last.had = 2
    /\ Cardinality(db.items) = 1
    /\ NoOrphans(db)

DispatcherKeys == { "tab", "n", "r", "d", "a", "e", "[", "]", "enter" }

OwnKeys(screen) ==
    IF screen = "confirm" THEN { "y", "n", "escape" }
    ELSE { "enter", "escape" }

PanelsAndStorage ==
    << _focus_panel, _selected_list, _list_rows, _item_rows, db >>

\* C4: while a modal is pending, no key of the dispatcher is bound except
\* where it is the modal's own key (n for Confirm, Enter for Prompt), and
\* every step of the running application either leaves focus, selection,
\* both snapshots, storage and the modal as they are, or is one of the
\* modal's own bindings dismissing it.
C4_ModalSuspendsDispatcher ==
    [][ ( modal # None /\ phase' = "running" ) =>
            /\ \A k \in DispatcherKeys \ OwnKeys(modal.screen) :
                   Binding(k) = NoBinding
            /\ \A k \in Keys :
                   Binding(k) # NoBinding <=> k \in OwnKeys(modal.screen)
            /\ \/ /\ UNCHANGED PanelsAndStorage
                  /\ UNCHANGED modal
               \/ /\ last'.op = "key"
                  /\ last'.bound \in
                         { "yes", "no", "submit", "cancel" }
                  /\ \E k \in OwnKeys(modal.screen) : Binding(k) = last'.bound
                  /\ modal' = None ]_vars

\* A key without a live binding was pressed while a modal was pending.
C4_Witness ==
    /\ modal # None
    /\ phase = "running"
    /\ last.op = "key"
    /\ last.bound = NoBinding

\* C5: the step that resolves a pending modal pops it and calls its
\* callback, once, with the result of the binding that ran; the callback
\* of a pending modal has not been called, no callback is called without a
\* pending modal, and a teardown with a modal pending calls nothing and
\* leaves storage as it is.
C5_CallbackExactlyOnce ==
    [][ /\ ( modal # None /\ modal' # modal /\ phase' = "running" ) =>
               /\ modal' = None
               /\ calls = 0 /\ calls' = 1
               /\ last'.op = "key"
               /\ last'.fired = modal.action
               /\ last'.bound = "yes" => last'.result = Bool(TRUE)
               /\ last'.bound = "no" => last'.result = Bool(FALSE)
               /\ last'.bound = "cancel" => last'.result = None
               /\ last'.bound = "submit" =>
                      \/ last'.result = None
                      \/ last'.result \in { Str(strip(t)) : t \in TypedTexts }
        /\ modal' # None => calls' = 0
        /\ calls' <= 1
        /\ calls' > calls => ( modal # None /\ modal' = None )
        /\ ( modal # None /\ phase' = "stopped" ) =>
               ( calls' = calls /\ db' = db ) ]_vars

\* A modal was resolved with a result and its callback has run once.
C5_Witness ==
    /\ phase = "running"
    /\ modal = None
    /\ calls = 1
    /\ last.op = "key"
    /\ last.fired = "add_item"
    /\ last.result # None
    /\ Cardinality(db.items) = last.had + 1

Negative(ev) ==
    /\ ev.op = "key"
    /\ ev.fired # NoCallback
    /\ \/ ev.bound = "cancel"
       \/ ev.bound = "no"
       \/ ev.bound = "submit" /\ ev.blank

\* C6: a Prompt cancelled or submitted blank, and a Confirm answered no,
\* leave storage, the selected list and the focused panel as they were when
\* the modal was opened: they change neither while it is pending nor when it
\* is dismissed.
C6_NegativeResultNoAction ==
    [][ /\ ( modal # None /\ Negative(last') ) =>
               UNCHANGED << db, _selected_list, _focus_panel >>
        /\ ( modal # None /\ modal' = modal /\ phase' = "running" ) =>
               UNCHANGED << db, _selected_list, _focus_panel >> ]_vars

\* Blank text was submitted to the Prompt of Rename List.
C6_Witness ==
    /\ last.op = "key"
    /\ last.bound = "submit"
    /\ last.blank
    /\ last.fired = "rename_list"
    /\ modal = None


(***************************************************************************)
(* Properties of the storage layer under failure and under sharing.        *)
(***************************************************************************)
\* C8: when the process stops anywhere inside delete_item, the file holds
\* either what it held before the call or the list without the row and
\* renumbered 1..N; never the list without the row and with a gap.
C8_DeleteItemAtomic ==
    conn[1].pc = "crashed" =>
        \/ db.items = conn[1].before.items
        \/ /\ \A r \in db.items : r.id # conn[1].item_id
           /\ Dense(items(db, conn[1].list_id))

\* C9: add_item run by two processes on one file never leaves two items of
\* one list with the same sort position.
C9_AddItemPositionsDistinct ==
    \A a \in db.items, b \in db.items :
        ( a.list_id = b.list_id /\ a.sort_order = b.sort_order ) => a = b


(***************************************************************************)
(* Properties of startup and of the dispatcher's guards.                   *)
(***************************************************************************)
\* The application was started with a list name that is not blank.
NamedStart(ev) ==
    /\ ev.op = "start"
    /\ ev.start_list # None
    /\ strip(ev.start_list.str) # Empty

HasHighlight(rows, index) == index >= 0 /\ index < Len(rows)

\* The precondition of the dispatcher action bound is not met.
Unmet(bound) ==
    CASE bound = "rename_list" ->
             \/ _focus_panel # "lists"
             \/ ~HasHighlight(_list_rows, lists_index)
      [] bound = "add_item" -> _selected_list = None
      [] bound = "edit_item" ->
             \/ _focus_panel # "items"
             \/ ~HasHighlight(_item_rows, items_index)
      [] bound \in { "move_up", "move_down" } ->
             \/ _focus_panel # "items"
             \/ _selected_list = None
             \/ ~HasHighlight(_item_rows, items_index)
      [] bound = "delete" ->
             IF _focus_panel = "lists"
             THEN ~HasHighlight(_list_rows, lists_index)
             ELSE ~HasHighlight(_item_rows, items_index)
      [] OTHER -> FALSE

\* C12: Rename List, Add Item, Edit Item, Move Up, Move Down and Delete,
\* run while their precondition is unmet, open no modal and leave storage,
\* the selected list and the focused panel unchanged.
C12_UnmetPreconditionNoop ==
    [][ ( last'.op = "key" /\ modal = None /\ Unmet(last'.bound) ) =>
            /\ modal' = None
            /\ UNCHANGED << db, _selected_list, _focus_panel >> ]_vars

\* Edit Item was pressed with the Items panel focused on a selected list
\* whose view highlights its placeholder row: an index outside the snapshot.
C12_Witness ==
    /\ last.op = "key"
    /\ last.bound = "edit_item"
    /\ modal = None
    /\ _focus_panel = "items"
    /\ _selected_list # None
    /\ items_index >= Len(_item_rows)

(***************************************************************************)
(* Properties of single storage calls.                                     *)
(***************************************************************************)
Negated(checked) == IF checked = 0 THEN 1 ELSE 0

\* C13: toggle_item(id) turns the checked flag of item id into its negation
\* and changes no other column and no other item; applied a second time it
\* gives back the items as they were.
C13_ToggleFlipsOneItem ==
    [][ last'.op = "toggle_item" =>
            LET id == last'.item_id
            IN  /\ db'.items =
                       { IF r.id = id
                         THEN [ r EXCEPT !.checked = Negated(r.checked) ]
                         ELSE r : r \in db.items }
                /\ \A r \in db.items : r.id = id => r \notin db'.items
                /\ toggle_item(db', id).items = db.items ]_vars

\* An item was toggled back to unchecked while another item stayed checked.
C13_Witness ==
    /\ last.op = "toggle_item"
    /\ \E r \in db.items : r.id = last.item_id /\ r.checked = 0
    /\ \E r \in db.items : r.id # last.item_id /\ r.checked = 1

\* The call moves an item of the list to a rank the list has.
InBounds(d, c) ==
    /\ c.op = "move_item"
    /\ IndexOf(items(d, c.list_id), c.item_id) # 0
    /\ ~AtBoundary(d, c.list_id, c.item_id, c.direction)

\* What an item is apart from its position.
Content(rows) ==
    { [ id |-> r.id, list_id |-> r.list_id, text |-> r.text,
        checked |-> r.checked ] : r \in rows }

\* C14: an in-bounds move_item(list_id, id, direction) on the item at rank i
\* puts it at rank i+direction and the item that was there at rank i; every
\* other item of the list keeps its rank, the positions of the list are
\* 1..N, no item appears, disappears or changes text or checked flag, and
\* the items of other lists and the titles of the lists stay as they are.
C14_MoveSwapsNeighbours ==
    [][ InBounds(db, last') =>
            LET before == items(db, last'.list_id)
                after == items(db', last'.list_id)
                i == IndexOf(before, last'.item_id)
                j == i + last'.direction
            IN  /\ Len(after) = Len(before)
                /\ after[j].id = before[i].id
                /\ after[i].id = before[j].id
                /\ \A k \in 1..Len(before) :
                       k \notin { i, j } => after[k].id = before[k].id
                /\ Dense(after)
                /\ Content(db'.items) = Content(db.items)
                /\ { r \in db'.items : r.list_id # last'.list_id }
                       = { r \in db.items : r.list_id # last'.list_id }
                /\ { ListRow(l.id, l.title) : l \in db'.lists }
                       = { ListRow(l.id, l.title) : l \in db.lists } ]_vars

\* The third of three items was moved up: the ranks are 1st, 3rd, 2nd.
C14_Witness ==
    /\ last.op = "move_item"
    /\ last.direction = 0 - 1
    /\ LET rows == items(db, last.list_id)
       IN  /\ Len(rows) = 3
           /\ rows[1].id = 1 /\ rows[2].id = 3 /\ rows[3].id = 2
           /\ last.item_id = 3

\* The ids of rows in order, and the same without one id.
IdsOf(rows) == [ i \in 1..Len(rows) |-> rows[i].id ]

IdsWithout(rows, id) == SelectSeq(IdsOf(rows), LAMBDA x : x # id)

\* C15: delete_item(list_id, id) on an item of that list removes that row
\* and no other, leaves the other rows their text and checked flag, numbers
\* the rest of the list 1..N-1 and keeps them in the order they had: what
\* items() returns afterwards is what it returned before without the item.
C15_DeleteKeepsRelativeOrder ==
    [][ ( /\ last'.op = "delete_item"
          /\ \E r \in db.items :
                 r.id = last'.item_id /\ r.list_id = last'.list_id ) =>
            LET before == items(db, last'.list_id)
                after == items(db', last'.list_id)
            IN  /\ Content(db'.items) =
                       { c \in Content(db.items) : c.id # last'.item_id }
                /\ Len(after) = Len(before) - 1
                /\ Dense(after)
                /\ IdsOf(after) = IdsWithout(before, last'.item_id)
                /\ { r \in db'.items : r.list_id # last'.list_id }
                       = { r \in db.items : r.list_id # last'.list_id } ]_vars

\* Item 2 was deleted from between item 3 and item 1.
C15_Witness ==
    /\ last.op = "delete_item"
    /\ last.item_id = 2
    /\ IdsOf(items(db, last.list_id)) = << 3, 1 >>

(***************************************************************************)
(* Properties of the snapshots and of the selection.                       *)
(***************************************************************************)
\* C16: when a step of the running application has changed storage, the
\* list snapshot is what lists() returns now (same rows, same order, same
\* titles) and, with a list selected, the item snapshot is what items() of
\* that list returns now.
C16_SnapshotsFresh ==
    [][ ( db' # db /\ phase' = "running" ) =>
            /\ _list_rows' = lists(db')
            /\ _selected_list' # None =>
                   _item_rows' = items(db', _selected_list'.id) ]_vars

\* C17: Delete confirmed with the Lists panel focused removes the list of
\* the highlighted row and no other list.  When that list is the selected
\* one the selection becomes absent and the item snapshot empty; otherwise
\* selection and item snapshot stay as they are.
C17_DeleteListClearsSelection ==
    [][ ConfirmedDelete(last') =>
            /\ _focus_panel = "lists"
            /\ HasHighlight(_list_rows, lists_index)
            /\ modal.row = _list_rows[lists_index + 1]
            /\ db'.lists = { l \in db.lists : l.id # modal.row.id }
            /\ IF _selected_list # None /\ _selected_list.id = modal.row.id
               THEN /\ _selected_list' = None
                    /\ _item_rows' = << >>
               ELSE UNCHANGED << _selected_list, _item_rows >> ]_vars

\* The selected list, holding an item, was deleted and another list is left.
C17_Witness ==
    /\ ConfirmedDelete(last)
    /\ _selected_list = None
    /\ _item_rows = << >>
    /\ Cardinality(db.items) < last.had
    /\ db.lists # {}

(***************************************************************************)
(* Properties of storage calls on ids that are gone.                       *)
(***************************************************************************)
\* The call names a list id, or an item id, that storage d does not hold.
TargetsMissing(d, c) ==
    \/ /\ c.op \in { "rename_list", "add_item" }
       /\ \A l \in d.lists : l.id # c.list_id
    \/ /\ c.op \in { "update_item_text", "toggle_item", "move_item",
                     "delete_item" }
       /\ \A r \in d.items : r.id # c.item_id

\* C18: rename_list, update_item_text, toggle_item, move_item and
\* delete_item naming an item (or list) that does not exist, and add_item
\* naming a list that does not exist, raise nothing and leave every list
\* and item row, position and timestamp as it was.
C18_MissingIdNoop ==
    [][ TargetsMissing(db, last') =>
            /\ db' = db
            /\ last'.raised = NoError ]_vars

(***************************************************************************)
(* Properties of the application on a failing storage.                     *)
(***************************************************************************)
\* C19: when a DB call fails inside a handler or a callback, the
\* application is still running afterwards, storage holds what it held
\* before, and both snapshots are what storage returns now.
C19_FailureNeutralized ==
    [][ last'.op = "failure" =>
            /\ phase' = "running"
            /\ db' = db
            /\ _list_rows' = lists(db')
            /\ _selected_list' # None =>
                   _item_rows' = items(db', _selected_list'.id) ]_vars

(***************************************************************************)
(* Properties of the screen stack.                                         *)
(***************************************************************************)
\* C20: at any time at most one modal screen is on the stack, and the
\* stack holds one exactly when a modal is pending.
C20_AtMostOneModal ==
    /\ open_modals \in { 0, 1 }
    /\ open_modals = 1 <=> modal # None

\* With a modal pending, a key that would open a modal from the main
\* screen was pressed and did nothing.
C20_Witness ==
    /\ open_modals = 1
    /\ modal # None
    /\ modal.screen = "input"
    /\ last.op = "key"
    /\ last.bound = NoBinding
    /\ MainBindings("n") = "new_list"
    /\ Binding("n") = NoBinding

(***************************************************************************)
(* Properties of the selection.                                            *)
(***************************************************************************)
\* The selection is absent or is a stored list under its current title.
SelectionValid ==
    \/ _selected_list = None
    \/ \E l \in db.lists :
           l.id = _selected_list.id /\ l.title = _selected_list.title

\* Every row of the item snapshot is a stored item of the selected list.
ItemsOwned ==
    \A k \in 1..Len(_item_rows) :
        /\ _selected_list # None
        /\ \E r \in db.items :
               r.id = _item_rows[k].id /\ r.list_id = _selected_list.id

\* Item item_id is stored as an item of the stored list list_id.
OwnedBy(list_id, item_id) ==
    /\ \E l \in db.lists : l.id = list_id
    /\ \E r \in db.items : r.id = item_id /\ r.list_id = list_id

\* C21: after every step of one running application the selection is
\* absent or a stored list with its current title, and every row of the
\* item snapshot is an item of the selected list.  So the add_item of Add
\* Item names a stored list, and the delete_item of Delete and the
\* move_item of Move Up/Move Down name a stored list and an item it owns.
C21_SelectionValid ==
    [][ /\ phase' = "running" => ( SelectionValid' /\ ItemsOwned' )
        /\ ( /\ last'.op = "key"
             /\ last'.fired = "add_item"
             /\ ~Falsy(last'.result) ) =>
               \E l \in db.lists : l.id = modal.list_id
        /\ ( /\ last'.op = "key"
             /\ last'.fired = "delete_item"
             /\ last'.result = Bool(TRUE) ) =>
               OwnedBy(modal.list_id, modal.item.id)
        /\ ( /\ last'.op = "key"
             /\ modal = None
             /\ last'.bound \in { "move_up", "move_down" }
             /\ ~Unmet(last'.bound) ) =>
               OwnedBy(_selected_list.id, _selected_item_row.id) ]_vars

\* The selected list, showing an item, was renamed and another list exists.
C21_Witness ==
    /\ last.op = "key"
    /\ last.fired = "rename_list"
    /\ last.result # None
    /\ _selected_list # None
    /\ _item_rows # << >>
    /\ Cardinality(db.lists) = 2
    /\ SelectionValid

=============================================================================
